---- MODULE Spec2Model ----
(***************************************************************************)
(* research-assistant: the ingest endpoints, the background text           *)
(* processing and the EnhancedProcessingPipeline task state machine.       *)
(*                                                                         *)
(*   backend/services/processing_pipeline.py   ProcessingTask, pipeline    *)
(*   backend/api/v1/ingest.py                  FastAPI ingest + background *)
(*   api/v1/ingest.py                          serverless ingest handler   *)
(*   backend/services/content_processor.py     generate_embeddings         *)
(*                                                                         *)
(* Progress is kept in tenths (0.1 -> 1, 1.0 -> 10).  uuid4() is a counter *)
(* of fresh values.  One authenticated user submits every request, so the  *)
(* (user_id, source_url) key of a Document row is its source_url.  The     *)
(* registries and metrics of the pipeline objects are modelled as one      *)
(* object: they are keyed by task id and every task belongs to one object. *)
(***************************************************************************)
EXTENDS Integers, Sequences, FiniteSets, TLC

\* ---------------------------------------------------------------- bounds
MaxRequests == 2        \* ingest requests submitted
NumUrls     == 1        \* distinct source URLs
MaxChunks   == 2        \* chunks the chunker returns for one document
MaxTasks    == 1        \* pipeline tasks started (process_url calls)
MaxFaults   == 1        \* writes to the processing_status table that fail
MaxSentences   == 4     \* sentences of a text given to the chunker
MaxSentenceLen == 3     \* characters of a sentence
MaxChunkSize   == 3     \* chunk_size
MaxOverlap     == 4     \* overlap
MaxTextLen     == 4     \* characters of a text given to _simple_chunking
MaxCleanLen    == 6     \* pieces of a text given to _clean_text

\* ------------------------------------------------------ program constants
max_retries  == 3       \* ProcessingTask.max_retries
ProgressNone == -1      \* update_status(progress=None)

NoneStr == "None"

Endpoints == {"fastapi", "vercel"}

\* ProcessingStage, in pipeline order, and the progress reported at entry.
StageName ==
  <<"content_extraction", "text_processing", "ai_analysis",
    "embedding_generation", "database_storage">>

StageProgress == <<1, 3, 6, 8, 9>>

NumStages == Len(StageName)

StageError ==
  <<"Failed to extract content after 4 attempts",
    "Failed to process text after 4 attempts",
    "Failed to analyze with AI after 4 attempts",
    "Failed to generate embeddings after 4 attempts",
    "Failed to store results after 4 attempts">>

TerminalStatus == {"completed", "failed", "cancelled"}

VARIABLES
  next_uuid,          \* the next value uuid4() / the store's id default returns
  unique_user_url,    \* whether the store enforces unique (user_id, source_url)
  requests,           \* ingest request r: position, endpoint, input, response
  documents,          \* the documents table: id -> row
  bg,                 \* process_content_background jobs: document id -> position
  tasks,              \* ProcessingTask objects: task id -> fields
  co,                 \* the _process_task coroutine of each task: its position
  active_tasks, completed_tasks, failed_tasks,
  metrics,
  processing_status,  \* the processing_status table (durable mirror)
  faults,             \* failed writes to that table so far
  hist,               \* per task: what has happened so far (observation only)
  chunking,           \* a call of AdvancedTextProcessor.create_enhanced_chunks
  cleaning,           \* a text under AdvancedTextProcessor._clean_text
  ai_processing,      \* a call of EnhancedAIProcessor.process_content
  embedding,          \* a call of ContentProcessor._generate_embedding
  hybrid              \* a call of EnhancedSearchService._hybrid_search

vars ==
  <<next_uuid, unique_user_url, requests, documents, bg, tasks, co,
    active_tasks, completed_tasks, failed_tasks, metrics, processing_status,
    faults, hist, chunking, cleaning, ai_processing, embedding, hybrid>>

callVars == <<ai_processing, embedding, hybrid>>

textVars == <<chunking, cleaning, callVars>>

pipelineVars ==
  <<tasks, co, active_tasks, completed_tasks, failed_tasks, metrics,
    processing_status, faults, hist>>

\* f with key k (re)bound to v
Put(f, k, v) == [x \in DOMAIN f \cup {k} |-> IF x = k THEN v ELSE f[x]]

\* ------------------------------------------------------- ProcessingTask

NewTask ==
  [status |-> "pending", stage |-> "initialized", progress |-> 0,
   error_message |-> NoneStr]

\* update_status without `if stage:`: the stage is assigned whatever is
\* passed, None included.
update_status_stage_unguarded(tk, status, stage, progress, error_message) ==
  [status        |-> status,
   stage         |-> stage,
   progress      |-> IF progress # ProgressNone THEN progress ELSE tk.progress,
   error_message |-> IF error_message # NoneStr THEN error_message
                     ELSE tk.error_message]

\* update_status without `if progress is not None:`: the progress is
\* assigned whatever is passed, None included.
update_status_progress_unguarded(tk, status, stage, progress, error_message) ==
  [status        |-> status,
   stage         |-> IF stage # NoneStr THEN stage ELSE tk.stage,
   progress      |-> progress,
   error_message |-> IF error_message # NoneStr THEN error_message
                     ELSE tk.error_message]

\* ProcessingTask.update_status: status always; stage, progress and
\* error_message only when given.
update_status(tk, status, stage, progress, error_message) ==
  [status        |-> status,
   stage         |-> IF stage # NoneStr THEN stage ELSE tk.stage,
   progress      |-> IF progress # ProgressNone THEN progress ELSE tk.progress,
   error_message |-> IF error_message # NoneStr THEN error_message
                     ELSE tk.error_message]

\* _update_database_status: upsert of the task's row; a store error is
\* logged and swallowed (dbok = FALSE leaves the table as it was).
update_database_status(rows, id, tk, dbok) ==
  IF dbok THEN Put(rows, id, tk) ELSE rows

\* The outcomes a write to the processing_status table can have here.
WriteOutcomes == IF faults < MaxFaults THEN BOOLEAN ELSE {TRUE}

\* The count of failed writes after one with outcome dbok.
Faults(dbok) == IF dbok THEN faults ELSE faults + 1

NewHist ==
  [invoked |-> {}, exhausted |-> NoneStr, cancelled |-> FALSE,
   refused |-> FALSE, after_cancel |-> FALSE, rows_after_cancel |-> FALSE,
   cap_failed |-> FALSE,
   stages |-> <<"initialized">>]

\* ------------------------------------------------------------- the store

\* The rows the duplicate check selects: same user, same source_url.
Matching(src) == {d \in DOMAIN documents : documents[d].source_url = src}

NewDocument(src, origin) ==
  [source_url |-> src, processing_status |-> "pending", origin |-> origin,
   task |-> 0, chunk_rows |-> 0, chunk_index |-> <<>>, embedding_rows |-> 0,
   store_failed |-> FALSE]

\* The ProcessingStatus response; doc: the Document row the request
\* inserted (0: none).
Respond(r, job_id, status, doc) ==
  requests' = [requests EXCEPT ![r].pc = "done", ![r].job_id = job_id,
                               ![r].status = status, ![r].doc = doc]

Fail(r) == requests' = [requests EXCEPT ![r].pc = "error"]

\* The request ends in an error because a call to the store raised for a
\* reason other than the unique constraint.
FailStore(r) ==
  requests' = [requests EXCEPT ![r].pc = "error", ![r].store_error = TRUE]

\* --------------------------------------------------------------- process_url

\* EnhancedProcessingPipeline.process_url: register the task, mirror it,
\* schedule _process_task.
process_url(task_id, src, dbok) ==
  /\ tasks' = Put(tasks, task_id, NewTask)
  /\ active_tasks' = active_tasks \cup {task_id}
  /\ processing_status' =
       update_database_status(processing_status, task_id, NewTask, dbok)
  /\ faults' = Faults(dbok)
  /\ co' = Put(co, task_id,
               [pc |-> "enter", stage |-> 1, attempt |-> 0, slept |-> <<>>, url |-> src,
                chunks |-> 0, embeddings |-> 0])
  /\ hist' = Put(hist, task_id, NewHist)
  /\ UNCHANGED <<completed_tasks, failed_tasks, metrics>>

\* ------------------------------------------------------------ ingest

\* ingest_content / handler._ingest_content up to the insert: the duplicate
\* check.  sel_ok = FALSE: the select raises.
IngestCheck(r) ==
  /\ requests[r].pc = "new"
  /\ \A q \in 1..(r - 1) : requests[q].pc # "new"
  /\ \E ep \in Endpoints, src \in 0..NumUrls, sel_ok \in BOOLEAN :
       LET found == IF src # 0 /\ sel_ok THEN Matching(src) ELSE {}
           short == IF ep = "fastapi"
                    THEN {"pending", "processing", "completed"}
                    ELSE {"pending", "processing"}
           go    == requests' = [requests EXCEPT ![r].pc = "insert",
                                   ![r].endpoint = ep, ![r].source = src]
       IN  IF ep = "vercel" /\ src # 0 /\ ~sel_ok
           THEN requests' = [requests EXCEPT ![r].pc = "error",
                               ![r].endpoint = ep, ![r].source = src,
                               ![r].store_error = TRUE]
           ELSE IF found = {}
           THEN go
           ELSE \E d \in found :
                  IF documents[d].processing_status \in short
                  THEN requests' =
                         [requests EXCEPT ![r].pc = "done",
                            ![r].endpoint = ep, ![r].source = src,
                            ![r].job_id = d,
                            ![r].status = documents[d].processing_status,
                            ![r].short_circuit = TRUE]
                  ELSE go
  /\ UNCHANGED <<next_uuid, unique_user_url, textVars, documents, bg>>
  /\ UNCHANGED pipelineVars

\* A request of the FastAPI endpoint with a source_url goes to the pipeline.
StartsTask(r) == requests[r].endpoint = "fastapi" /\ requests[r].source # 0

\* The rest of the request: the insert of the pending Document row, then
\* the start of the processing.
IngestInsert(r) ==
  /\ requests[r].pc = "insert"
  /\ StartsTask(r) => Cardinality(DOMAIN tasks) < MaxTasks
  /\ \E ins_ok \in BOOLEAN, dbok \in WriteOutcomes :
       LET src      == requests[r].source
           ep       == requests[r].endpoint
           job_id   == next_uuid
           conflict == unique_user_url /\ src # 0 /\ Matching(src) # {}
       IN
       IF conflict /\ ep = "fastapi"
       THEN \* the constraint-violation recovery: look the row up
            /\ \E d \in Matching(src) :
                 IF ins_ok
                 THEN Respond(r, d, documents[d].processing_status, 0)
                 ELSE FailStore(r)
            /\ next_uuid' = next_uuid + 1
            /\ UNCHANGED <<documents, bg>>
            /\ UNCHANGED pipelineVars
       ELSE IF conflict \/ ~ins_ok
       THEN /\ IF conflict THEN Fail(r) ELSE FailStore(r)
            /\ next_uuid' = next_uuid + 1
            /\ UNCHANGED <<documents, bg>>
            /\ UNCHANGED pipelineVars
       ELSE /\ documents' = Put(documents, job_id, NewDocument(src, ep))
            /\ IF StartsTask(r)
               THEN /\ process_url(next_uuid + 1, src, dbok)
                    /\ Respond(r, next_uuid + 1, "pending", job_id)
                    /\ next_uuid' = next_uuid + 2
                    /\ UNCHANGED bg
               ELSE /\ Respond(r, job_id, "pending", job_id)
                    /\ next_uuid' = next_uuid + 1
                    /\ bg' = IF ep = "fastapi"
                             THEN Put(bg, job_id, [pc |-> "queued", chunks |-> 0, i |-> 0,
                                                   raised |-> FALSE])
                             ELSE bg
                    /\ UNCHANGED pipelineVars
  /\ UNCHANGED <<unique_user_url, textVars>>

\* ------------------------------------------------- the pipeline coroutine

count_failed_only(m) == [m EXCEPT !.failed = @ + 1]

\* metrics["total_processed"] += 1; metrics["failed"] += 1
count_failed(m) == [m EXCEPT !.total_processed = @ + 1, !.failed = @ + 1]

\* _handle_task_error: FAILED with the message, out of the active set, into
\* failed_tasks, counted, mirrored.
handle_task_error(t, tk, error_message, dbok) ==
  /\ tasks' = [tasks EXCEPT ![t] =
                 update_status(tk, "failed", NoneStr, ProgressNone, error_message)]
  /\ active_tasks' = active_tasks \ {t}
  /\ failed_tasks' = failed_tasks \cup {t}
  /\ metrics' = count_failed(metrics)
  /\ processing_status' =
       update_database_status(processing_status, t, tasks'[t], dbok)
  /\ faults' = Faults(dbok)
  /\ UNCHANGED completed_tasks

\* _update_task_progress at the entry of stage co[t].stage: PROCESSING, the
\* stage and its progress, mirrored.  It looks at no registry.
update_task_progress(t) ==
  /\ t \in DOMAIN co
  /\ co[t].pc = "enter"
  /\ \E dbok \in WriteOutcomes :
       LET k == co[t].stage IN
       /\ tasks' = [tasks EXCEPT ![t] =
                      update_status(@, "processing", StageName[k],
                                    StageProgress[k], NoneStr)]
       /\ processing_status' =
            update_database_status(processing_status, t, tasks'[t], dbok)
       /\ faults' = Faults(dbok)
       /\ co' = [co EXCEPT ![t].pc = "op", ![t].attempt = 0, ![t].slept = <<>>]
       /\ hist' = [hist EXCEPT ![t].stages = Append(@, StageName[k])]
  /\ UNCHANGED <<active_tasks, completed_tasks, failed_tasks, metrics>>
  /\ UNCHANGED <<next_uuid, unique_user_url, textVars, requests, documents, bg>>

\* A retry loop that never advances its attempt counter.
NextAttemptStuck(attempt) == attempt

\* The loop variable of `for attempt in range(...)` after attempt.
NextAttempt(attempt) == attempt + 1

backoff_linear(attempt) == attempt + 1

\* `await asyncio.sleep(2 ** attempt)`: the seconds slept after a failed
\* attempt that was not the last.  co[t].slept keeps them for the current
\* loop, by the number of the failed attempt (1 for the first).
backoff(attempt) == 2 ^ attempt

\* Whether the attempt that just failed was the last one of the loop
\* `for attempt in range(task.max_retries + 1)`.
LastAttempt(attempt) == attempt = max_retries

\* What the pipeline objects hold after attempt co[t].attempt of stage k's
\* operation: ok returns to _process_task, which goes on to the next stage;
\* a failure sleeps 2 ** attempt and tries again, and the last one raises
\* into _process_task's handler.  external: the failure is the external
\* capability's; cot: the coroutine's locals with the operation's result;
\* wrote: the attempt inserted a row.
AfterAttempt(t, k, ok, external, dbok, cot, wrote) ==
  /\ hist' = [hist EXCEPT
       ![t].invoked = @ \cup {k},
       ![t].after_cancel = @ \/ hist[t].cancelled,
       ![t].rows_after_cancel = @ \/ (hist[t].cancelled /\ wrote),
       ![t].cap_failed = @ \/ (~ok /\ external),
       ![t].exhausted = IF ~ok /\ LastAttempt(co[t].attempt)
                        THEN StageName[k] ELSE @]
  /\ IF ok
     THEN /\ co' = [co EXCEPT ![t] =
                         [cot EXCEPT !.pc = IF k = NumStages THEN "complete" ELSE "enter",
                                     !.stage = IF k = NumStages THEN k ELSE k + 1,
                                     !.attempt = 0,
                                     !.slept = <<>>]]
          /\ dbok
          /\ UNCHANGED <<tasks, active_tasks, completed_tasks, failed_tasks,
                         metrics, processing_status, faults>>
     ELSE IF LastAttempt(co[t].attempt)
     THEN /\ handle_task_error(t, tasks[t], StageError[k], dbok)
          /\ co' = [co EXCEPT ![t].pc = "done"]
     ELSE /\ co' = [co EXCEPT ![t].slept = Put(@, co[t].attempt + 1, backoff(co[t].attempt)),
                              ![t].attempt = NextAttempt(@)]
          /\ dbok
          /\ UNCHANGED <<tasks, active_tasks, completed_tasks, failed_tasks,
                         metrics, processing_status, faults>>

AtOp(t, k) == t \in DOMAIN co /\ co[t].pc = "op" /\ co[t].stage = k

storeVars == <<next_uuid, unique_user_url, textVars, requests, documents, bg>>

\* _extract_content_with_retry: the fetch returns enough text, or it raises
\* or returns fewer than 50 characters.
extract_content_with_retry(t) ==
  /\ AtOp(t, 1)
  /\ \E ok \in BOOLEAN, dbok \in WriteOutcomes : AfterAttempt(t, 1, ok, TRUE, dbok, co[t], FALSE)
  /\ UNCHANGED storeVars

\* _process_text_with_retry: process_text and create_enhanced_chunks; the
\* chunker returns 0..MaxChunks chunks.
process_text_with_retry(t) ==
  /\ AtOp(t, 2)
  /\ \E ok \in BOOLEAN, dbok \in WriteOutcomes, n \in 0..MaxChunks :
       /\ ok \/ n = 0
       /\ AfterAttempt(t, 2, ok, TRUE, dbok, [co[t] EXCEPT !.chunks = n], FALSE)
  /\ UNCHANGED storeVars

\* _analyze_with_ai_with_retry
analyze_with_ai_with_retry(t) ==
  /\ AtOp(t, 3)
  /\ \E ok \in BOOLEAN, dbok \in WriteOutcomes : AfterAttempt(t, 3, ok, TRUE, dbok, co[t], FALSE)
  /\ UNCHANGED storeVars

\* _generate_embeddings_with_retry as written: the call
\* content_processor.generate_embeddings(content) passes one argument to
\* generate_embeddings(self, document_id, chunks), so every attempt raises
\* TypeError before the embedding capability is reached.
generate_embeddings_with_retry(t) ==
  /\ AtOp(t, 4)
  /\ \E dbok \in WriteOutcomes : AfterAttempt(t, 4, FALSE, FALSE, dbok, co[t], FALSE)
  /\ UNCHANGED storeVars

\* A cancel_task that tests for a known task instead of an active one.
CancelHonouredKnown(id) == id \in DOMAIN tasks

\* `if task_id in self.active_tasks`: the test cancel_task makes, and the
\* value it returns.
CancelHonoured(id) == id \in active_tasks

\* cancel_task(id): honoured for a task of the active set only; any other
\* id falls through to `return False` and touches nothing.
cancel_task(id) ==
  /\ \E dbok \in WriteOutcomes :
       IF CancelHonoured(id)
       THEN /\ tasks' = [tasks EXCEPT ![id] =
                           update_status(@, "cancelled", NoneStr, ProgressNone, NoneStr)]
            /\ active_tasks' = active_tasks \ {id}
            /\ completed_tasks' = completed_tasks \cup {id}
            /\ processing_status' =
                 update_database_status(processing_status, id, tasks'[id], dbok)
            /\ faults' = Faults(dbok)
            /\ hist' = [hist EXCEPT ![id].cancelled = TRUE]
            /\ UNCHANGED <<failed_tasks, metrics>>
       ELSE /\ dbok
            /\ hist' = IF id \in DOMAIN hist
                        THEN [hist EXCEPT ![id].refused = TRUE] ELSE hist
            /\ UNCHANGED <<tasks, active_tasks, completed_tasks, failed_tasks,
                           metrics, processing_status, faults>>
  /\ UNCHANGED <<co, next_uuid, unique_user_url, textVars, requests, documents, bg>>

\* _generate_embeddings_with_retry with the embedding capability taken as
\* the call site takes it: generate_embeddings(content) returns a list of
\* 0..MaxChunks embeddings.  Not a step of the code as written (there the
\* call raises TypeError); with it the storage stage and _complete_task
\* are reached.
generate_embeddings_returns(t) ==
  /\ AtOp(t, 4)
  /\ \E dbok \in WriteOutcomes, n \in 0..MaxChunks :
       AfterAttempt(t, 4, TRUE, FALSE, dbok, [co[t] EXCEPT !.embeddings = n], FALSE)
  /\ UNCHANGED storeVars

ChunksToStoreAll(c, e) == c

\* The chunks one attempt of the storage loop writes: chunk i only if
\* i < len(embeddings).
ChunksToStore(c, e) == IF c < e THEN c ELSE e

\* The Document row _store_results_with_retry inserts.
\* chunk.index of the chunk at position i of text_analysis["chunks"]: the
\* chunker numbers its chunks from 0 in list order.
chunk_index(i) == i

\* The rows of one storage attempt: the document row, with the chunk_index
\* of each chunk row written in the order of the inserts.
StoredDocument(t, rows, failed) ==
  [source_url |-> co[t].url, processing_status |-> "completed",
   origin |-> "pipeline", task |-> t, chunk_rows |-> rows,
   chunk_index |-> [k \in 1..rows |-> chunk_index(k - 1)],
   embedding_rows |-> rows, store_failed |-> failed]

\* _store_results_with_retry, one attempt: the Document insert (refused by
\* the unique constraint when a row of this user and URL exists, or failing
\* otherwise), then the chunk inserts in order; `stop` is the chunk whose
\* insert raises (n: none does).
store_results_with_retry(t) ==
  /\ AtOp(t, 5)
  /\ \E ins_ok \in BOOLEAN, dbok \in WriteOutcomes,
        stop \in 0..ChunksToStore(co[t].chunks, co[t].embeddings) :
       LET n        == ChunksToStore(co[t].chunks, co[t].embeddings)
           conflict == unique_user_url /\ Matching(co[t].url) # {}
       IN
       IF conflict \/ ~ins_ok
       THEN /\ stop = 0
            /\ AfterAttempt(t, 5, FALSE, TRUE, dbok, co[t], FALSE)
            /\ UNCHANGED <<documents, next_uuid>>
       ELSE /\ documents' = Put(documents, next_uuid, StoredDocument(t, stop, stop < n))
            /\ next_uuid' = next_uuid + 1
            /\ AfterAttempt(t, 5, stop = n, TRUE, dbok, co[t], TRUE)
  /\ UNCHANGED <<unique_user_url, textVars, requests, bg>>

\* _complete_task: COMPLETED/COMPLETED/1.0, then `del self.active_tasks[id]`,
\* which raises KeyError for a task cancel_task has moved out, so that the
\* method's handler calls _handle_task_error.
complete_task(t) ==
  /\ t \in DOMAIN co
  /\ co[t].pc = "complete"
  /\ \E dbok \in WriteOutcomes :
       LET tk == update_status(tasks[t], "completed", "completed", 10, NoneStr) IN
       IF t \in active_tasks
       THEN /\ tasks' = [tasks EXCEPT ![t] = tk]
            /\ active_tasks' = active_tasks \ {t}
            /\ completed_tasks' = completed_tasks \cup {t}
            /\ metrics' = [metrics EXCEPT !.total_processed = @ + 1,
                                          !.successful = @ + 1]
            /\ processing_status' =
                 update_database_status(processing_status, t, tk, dbok)
            /\ faults' = Faults(dbok)
            /\ UNCHANGED failed_tasks
       ELSE handle_task_error(t, tk, "KeyError", dbok)
  /\ co' = [co EXCEPT ![t].pc = "done"]
  /\ hist' = [hist EXCEPT ![t].stages = Append(@, "completed")]
  /\ UNCHANGED storeVars

\* ------------------------------------ process_content_background (text)

\* A background job that goes on to the processing without the write of
\* line 196.
BgMarkProcessingNoWrite(d) ==
  /\ d \in DOMAIN bg
  /\ bg[d].pc = "queued"
  /\ bg' = [bg EXCEPT ![d].pc = "processing"]
  /\ UNCHANGED <<next_uuid, unique_user_url, textVars, requests, documents>>
  /\ UNCHANGED pipelineVars

\* Line 196: the document goes to processing; when that update raises, the
\* handler (227-232) writes failed.
BgMarkProcessing(d) ==
  /\ d \in DOMAIN bg
  /\ bg[d].pc = "queued"
  /\ \E ok \in BOOLEAN :
       IF ok
       THEN /\ documents' = [documents EXCEPT ![d].processing_status = "processing"]
            /\ bg' = [bg EXCEPT ![d].pc = "processing"]
       ELSE /\ documents' = [documents EXCEPT ![d].processing_status = "failed"]
            /\ bg' = [bg EXCEPT ![d].pc = "done", ![d].raised = TRUE]
  /\ UNCHANGED <<next_uuid, unique_user_url, textVars, requests>>
  /\ UNCHANGED pipelineVars

\* Lines 199-222 and the handler: process_text returns n chunks and the
\* update writes them with processing_status completed, or something raises
\* and the handler writes failed.
BgProcessContent(d) ==
  /\ d \in DOMAIN bg
  /\ bg[d].pc = "processing"
  /\ \E ok \in BOOLEAN, n \in 0..MaxChunks :
       IF ok
       THEN /\ documents' = [documents EXCEPT ![d].processing_status = "completed",
                                               ![d].chunk_rows = n]
            /\ bg' = [bg EXCEPT ![d].pc = IF n = 0 THEN "done" ELSE "embedding",
                                ![d].chunks = n]
       ELSE /\ n = 0
            /\ documents' = [documents EXCEPT ![d].processing_status = "failed"]
            /\ bg' = [bg EXCEPT ![d].pc = "done", ![d].raised = TRUE]
  /\ UNCHANGED <<next_uuid, unique_user_url, textVars, requests>>
  /\ UNCHANGED pipelineVars

\* Line 225, ContentProcessor.generate_embeddings(job_id, chunks): one turn
\* of its loop.  The embedding itself cannot fail (hash fallback); a failed
\* insert leaves the loop through the method's own handler, which prints and
\* returns, so that process_content_background's handler never runs.
BgGenerateEmbeddings(d) ==
  /\ d \in DOMAIN bg
  /\ bg[d].pc = "embedding"
  /\ \E ok \in BOOLEAN :
       IF ok
       THEN /\ documents' = [documents EXCEPT ![d].embedding_rows = @ + 1]
            /\ bg' = [bg EXCEPT ![d].i = @ + 1,
                                ![d].pc = IF bg[d].i + 1 = bg[d].chunks
                                          THEN "done" ELSE "embedding"]
       ELSE /\ documents' = [documents EXCEPT ![d].store_failed = TRUE]
            /\ bg' = [bg EXCEPT ![d].pc = "done"]
  /\ UNCHANGED <<next_uuid, unique_user_url, textVars, requests>>
  /\ UNCHANGED pipelineVars

\* No call of the text processor under way.
NoCall == [pc |-> "none"]

\* The pipeline and the store after construction.
PipelineInit ==
  /\ next_uuid = 1
  /\ unique_user_url \in BOOLEAN
  /\ requests = [r \in 1..MaxRequests |->
                   [pc |-> "new", endpoint |-> NoneStr, source |-> 0,
                    job_id |-> 0, status |-> NoneStr, short_circuit |-> FALSE,
                    doc |-> 0, store_error |-> FALSE]]
  /\ documents = <<>>
  /\ bg = <<>>
  /\ tasks = <<>>
  /\ co = <<>>
  /\ active_tasks = {}
  /\ completed_tasks = {}
  /\ failed_tasks = {}
  /\ metrics = [total_processed |-> 0, successful |-> 0, failed |-> 0]
  /\ processing_status = <<>>
  /\ faults = 0
  /\ hist = <<>>

NoCalls ==
  /\ ai_processing = NoCall
  /\ embedding = NoCall
  /\ hybrid = NoCall

Init ==
  /\ PipelineInit
  /\ chunking = NoCall
  /\ cleaning = NoCall
  /\ NoCalls

\* The steps of the code as written.
Next ==
  \/ \E r \in 1..MaxRequests : IngestCheck(r)
  \/ \E r \in 1..MaxRequests : IngestInsert(r)
  \/ \E d \in DOMAIN bg : BgMarkProcessing(d)
  \/ \E d \in DOMAIN bg : BgProcessContent(d)
  \/ \E d \in DOMAIN bg : BgGenerateEmbeddings(d)
  \/ \E t \in DOMAIN co : update_task_progress(t)
  \/ \E t \in DOMAIN co : extract_content_with_retry(t)
  \/ \E t \in DOMAIN co : process_text_with_retry(t)
  \/ \E t \in DOMAIN co : analyze_with_ai_with_retry(t)
  \/ \E t \in DOMAIN co : generate_embeddings_with_retry(t)
  \/ \E id \in {0} \cup DOMAIN tasks : cancel_task(id)   \* 0: an id of no task

Spec == Init /\ [][Next]_vars

\* The same with the embedding call returning: the storage stage and
\* _complete_task run.
NextEmbed ==
  \/ Next
  \/ \E t \in DOMAIN co : generate_embeddings_returns(t)
  \/ \E t \in DOMAIN co : store_results_with_retry(t)
  \/ \E t \in DOMAIN co : complete_task(t)

SpecEmbed == Init /\ [][NextEmbed]_vars

\* The event loop runs a scheduled coroutine, and every external call it
\* waits for returns or raises.
PipelineStep ==
  \E t \in DOMAIN co :
    \/ update_task_progress(t)
    \/ extract_content_with_retry(t)
    \/ process_text_with_retry(t)
    \/ analyze_with_ai_with_retry(t)
    \/ generate_embeddings_with_retry(t)

SpecLive == Init /\ [][Next]_vars /\ WF_vars(PipelineStep)

\* ----------------------------------- AdvancedTextProcessor: the chunker
\*
\* A text is given to the sentence loop as the list of its sentences'
\* lengths (what _split_sentences returned for the cleaned text; a sentence
\* is never empty), and a sentence is known by its position in that list.
\* _simple_chunking gets the raw text, a string over a letter and a blank.

RECURSIVE SumLen(_, _)
\* sum(len(s) for s in chunk)
SumLen(sentences, chunk) ==
  IF chunk = <<>> THEN 0
  ELSE sentences[Head(chunk)] + SumLen(sentences, Tail(chunk))

\* len(' '.join(chunk))
JoinLen(sentences, chunk) ==
  IF chunk = <<>> THEN 0 ELSE SumLen(sentences, chunk) + Len(chunk) - 1

RECURSIVE OverlapLoop(_, _, _, _)
\* The loop of _get_overlap_sentences: sentences of the chunk from its
\* first one on, as long as their lengths add up to overlap_size at most.
OverlapLoop(sentences, rest, current_length, overlap_size) ==
  IF rest = <<>> THEN <<>>
  ELSE IF current_length + sentences[Head(rest)] <= overlap_size
  THEN <<Head(rest)>> \o OverlapLoop(sentences, Tail(rest),
                                      current_length + sentences[Head(rest)],
                                      overlap_size)
  ELSE <<>>

\* _get_overlap_sentences(current_chunk, overlap)
get_overlap_sentences(sentences, chunk, overlap_size) ==
  IF chunk = <<>> \/ overlap_size <= 0 THEN <<>>
  ELSE IF JoinLen(sentences, chunk) <= overlap_size THEN chunk
  ELSE OverlapLoop(sentences, chunk, 0, overlap_size)

\* A chunk numbered from one.
next_index_from_one(chunks) == Len(chunks) + 1

\* The index a new chunk gets: len(chunks).
next_index(chunks) == Len(chunks)

\* A new chunk that forgets the sentence that did not fit.
start_chunk_without_sentence(overlap_sentences, sentence) == overlap_sentences

\* current_chunk = overlap_sentences + [sentence]
start_chunk(overlap_sentences, sentence) == overlap_sentences \o <<sentence>>

\* The TextChunk of a run of sentences; carried: how many of them, at its
\* head, came from the previous chunk as overlap.
SentenceChunk(chunks, chunk, carried) ==
  [index |-> next_index(chunks), sentences |-> chunk, carried |-> carried,
   start_char |-> 0, end_char |-> 0]

\* The TextChunk of the window text[i : i + chunk_size] (offsets from 0).
WindowChunk(chunks, i, stop) ==
  [index |-> next_index(chunks), sentences |-> <<>>, carried |-> 0,
   start_char |-> i, end_char |-> stop]

SentenceLists ==
  UNION {[1..n -> 1..MaxSentenceLen] : n \in 0..MaxSentences}

Texts == UNION {[1..n -> {"a", " "}] : n \in 0..MaxTextLen}

\* The calls create_enhanced_chunks(text, chunk_size, overlap) at the head of
\* the sentence loop (path semantic), and at the head of _simple_chunking
\* after the try block raised (path simple).
ChunkingCalls ==
  {[pc |-> "loop", path |-> "semantic", sentences |-> ss, text |-> <<>>,
    chunk_size |-> cs, overlap |-> ov, i |-> 1, chunks |-> <<>>,
    current_chunk |-> <<>>, current_length |-> 0, carried |-> 0] :
      ss \in SentenceLists, cs \in 1..MaxChunkSize, ov \in 0..MaxOverlap}
  \cup
  {[pc |-> "loop", path |-> "simple", sentences |-> <<>>, text |-> tx,
    chunk_size |-> cs, overlap |-> ov, i |-> 0, chunks |-> <<>>,
    current_chunk |-> <<>>, current_length |-> 0, carried |-> 0] :
      tx \in Texts, cs \in 1..MaxChunkSize, ov \in 0..MaxOverlap}

AtLoop(path) == chunking.pc = "loop" /\ chunking.path = path

chunkFrame ==
  <<next_uuid, unique_user_url, requests, documents, bg, tasks, co,
    active_tasks, completed_tasks, failed_tasks, metrics, processing_status,
    faults, hist, cleaning, callVars>>

\* One turn of `for i, sentence in enumerate(sentences)`.
ChunkSentence ==
  /\ AtLoop("semantic")
  /\ chunking.i <= Len(chunking.sentences)
  /\ LET c  == chunking
         sl == c.sentences[c.i]
     IN  IF c.current_length + sl > c.chunk_size /\ c.current_chunk # <<>>
         THEN LET ov == get_overlap_sentences(c.sentences, c.current_chunk, c.overlap)
                  nc == start_chunk(ov, c.i)
              IN  chunking' =
                    [c EXCEPT !.chunks = Append(@, SentenceChunk(@, c.current_chunk, c.carried)),
                              !.current_chunk = nc,
                              !.current_length = SumLen(c.sentences, nc),
                              !.carried = Len(ov),
                              !.i = @ + 1]
         ELSE chunking' = [c EXCEPT !.current_chunk = Append(@, c.i),
                                    !.current_length = @ + sl,
                                    !.i = @ + 1]
  /\ UNCHANGED chunkFrame

\* After the loop: `if current_chunk:` the final chunk, and the return.
ChunkFinal ==
  /\ AtLoop("semantic")
  /\ chunking.i > Len(chunking.sentences)
  /\ chunking' =
       [chunking EXCEPT
          !.chunks = IF chunking.current_chunk # <<>>
                     THEN Append(@, SentenceChunk(@, chunking.current_chunk,
                                                  chunking.carried))
                     ELSE @,
          !.pc = "done"]
  /\ UNCHANGED chunkFrame

\* text[i : i + chunk_size].strip() is not empty
NotBlank(text, i, stop) == \E k \in (i + 1)..stop : text[k] # " "

\* The end of the slice text[i : i + chunk_size].
SliceEnd(text, i, chunk_size) ==
  IF i + chunk_size < Len(text) THEN i + chunk_size ELSE Len(text)

\* _simple_chunking: `for i in range(0, len(text), chunk_size - overlap)`.
\* range raises ValueError for a step of 0 and is empty for a negative one.
SimpleChunkStep ==
  /\ AtLoop("simple")
  /\ LET c    == chunking
         step == c.chunk_size - c.overlap
         stop == SliceEnd(c.text, c.i, c.chunk_size)
     IN  IF step = 0
         THEN chunking' = [c EXCEPT !.pc = "raised"]
         ELSE IF step < 0 \/ c.i >= Len(c.text)
         THEN chunking' = [c EXCEPT !.pc = "done"]
         ELSE chunking' =
                [c EXCEPT !.chunks = IF NotBlank(c.text, c.i, stop)
                                     THEN Append(@, WindowChunk(@, c.i, stop))
                                     ELSE @,
                          !.i = @ + step]
  /\ UNCHANGED chunkFrame

InitChunk ==
  /\ PipelineInit
  /\ unique_user_url          \* the store plays no part
  /\ chunking \in ChunkingCalls
  /\ cleaning = NoCall
  /\ NoCalls

NextChunk ==
  \/ ChunkSentence
  \/ ChunkFinal
  \/ SimpleChunkStep

SpecChunk == InitChunk /\ [][NextChunk]_vars

\* The interpreter runs the loops on.
SpecChunkLive == InitChunk /\ [][NextChunk]_vars /\ WF_vars(NextChunk)

\* ------------------------------- AdvancedTextProcessor: the normalizer
\*
\* A text is a string of pieces: a letter, a blank, a newline, a full stop,
\* an en dash ("endash"), and the two halves "Sub" and "scribe" of the denylisted
\* phrase 'Subscribe' (one of the sixteen patterns, which are all removed
\* the same way).  "-" is what the dash is replaced by.

Whitespace == {" ", "\n"}

Pieces == {"a", " ", "\n", ".", "endash", "Sub", "scribe"}

RECURSIVE collapse_whitespace(_)
\* re.sub(r'\s+', ' ', text)
collapse_whitespace(t) ==
  IF t = <<>> THEN <<>>
  ELSE IF Head(t) \in Whitespace
  THEN IF Len(t) > 1 /\ t[2] \in Whitespace
       THEN collapse_whitespace(Tail(t))
       ELSE <<" ">> \o collapse_whitespace(Tail(t))
  ELSE <<Head(t)>> \o collapse_whitespace(Tail(t))

RECURSIVE remove_unwanted(_)
\* re.sub(pattern, '', text, flags=re.IGNORECASE): every occurrence of the
\* phrase, found from left to right in the text as it is, is cut out.
remove_unwanted(t) ==
  IF t = <<>> THEN <<>>
  ELSE IF Len(t) > 1 /\ t[1] = "Sub" /\ t[2] = "scribe"
  THEN remove_unwanted(Tail(Tail(t)))
  ELSE <<Head(t)>> \o remove_unwanted(Tail(t))

\* text.replace(<en dash>, '-'); the two replace lines before it (268, 269) change
\* no text made of these pieces.
normalize_dashes(t) == [k \in 1..Len(t) |-> IF t[k] = "endash" THEN "-" ELSE t[k]]

RECURSIVE collapse_punctuation(_)
\* re.sub(r'[.!?]{2,}', '.', text)
collapse_punctuation(t) ==
  IF t = <<>> THEN <<>>
  ELSE IF Head(t) = "." /\ Len(t) > 1 /\ t[2] = "."
  THEN collapse_punctuation(Tail(t))
  ELSE <<Head(t)>> \o collapse_punctuation(Tail(t))

RECURSIVE lstrip(_)
lstrip(t) ==
  IF t # <<>> /\ Head(t) \in Whitespace THEN lstrip(Tail(t)) ELSE t

RECURSIVE rstrip(_)
rstrip(t) ==
  IF t # <<>> /\ t[Len(t)] \in Whitespace
  THEN rstrip(SubSeq(t, 1, Len(t) - 1)) ELSE t

\* text.strip()
strip(t) == rstrip(lstrip(t))

\* AdvancedTextProcessor._clean_text
clean_text(t) ==
  IF t = <<>> THEN <<>>
  ELSE strip(collapse_punctuation(normalize_dashes(
         remove_unwanted(collapse_whitespace(t)))))

CleanTexts == UNION {[1..n -> Pieces] : n \in 0..MaxCleanLen}

cleanFrame ==
  <<next_uuid, unique_user_url, requests, documents, bg, tasks, co,
    active_tasks, completed_tasks, failed_tasks, metrics, processing_status,
    faults, hist, chunking, callVars>>

\* y = _clean_text(x)
CleanOnce ==
  /\ cleaning.pc = "input"
  /\ cleaning' = [cleaning EXCEPT !.pc = "once", !.once = clean_text(cleaning.x)]
  /\ UNCHANGED cleanFrame

\* z = _clean_text(y)
CleanTwice ==
  /\ cleaning.pc = "once"
  /\ cleaning' = [cleaning EXCEPT !.pc = "twice", !.twice = clean_text(cleaning.once)]
  /\ UNCHANGED cleanFrame

InitClean ==
  /\ PipelineInit
  /\ unique_user_url          \* the store plays no part
  /\ chunking = NoCall
  /\ cleaning \in {[pc |-> "input", x |-> t, once |-> <<>>, twice |-> <<>>] :
                     t \in CleanTexts}
  /\ NoCalls

NextClean ==
  \/ CleanOnce
  \/ CleanTwice

SpecClean == InitClean /\ [][NextClean]_vars

\* ---------------------------------------------------------------------
\* A resubmission: the documents table already holds the row of an earlier
\* submission of URL 1 whose processing_status is failed.
FailedDocument ==
  [NewDocument(1, "fastapi") EXCEPT !.processing_status = "failed"]

InitRetry ==
  /\ next_uuid = 2
  /\ unique_user_url \in BOOLEAN
  /\ requests = [r \in 1..MaxRequests |->
                   [pc |-> "new", endpoint |-> NoneStr, source |-> 0,
                    job_id |-> 0, status |-> NoneStr, short_circuit |-> FALSE,
                    doc |-> 0, store_error |-> FALSE]]
  /\ documents = Put(<<>>, 1, FailedDocument)
  /\ bg = <<>>
  /\ tasks = <<>>
  /\ co = <<>>
  /\ active_tasks = {}
  /\ completed_tasks = {}
  /\ failed_tasks = {}
  /\ metrics = [total_processed |-> 0, successful |-> 0, failed |-> 0]
  /\ processing_status = <<>>
  /\ faults = 0
  /\ hist = <<>>
  /\ chunking = NoCall
  /\ cleaning = NoCall
  /\ NoCalls

SpecRetry == InitRetry /\ [][Next]_vars

\* ---------------------------------------------------------------------
\* EnhancedAIProcessor.process_content (services/ai_processor.py).
\* A value is a string or a list of strings; both are kept as a typed
\* record so that a string and a list are never equal.
Str(x) == [type |-> "str", items |-> <<x>>]

List(xs) == [type |-> "list", items |-> xs]

ProcessingStrategy == {"comprehensive", "standard", "light", "technical", "academic"}

AllFields == <<"title", "summary", "insights", "tags", "action_items", "quotable_snippets">>

LightFields == <<"title", "summary", "tags">>

FieldSet == {AllFields[k] : k \in DOMAIN AllFields}

\* What the completion call yields for a field when it succeeds (the
\* stripped text, or the parsed list).
Extracted(name) ==
  IF name \in {"title", "summary"} THEN Str(name) ELSE List(<<name>>)

extractor_default_blank(name) == Str("")

\* The `except Exception` of each _extract_* method: what it returns when
\* its completion call fails.
extractor_default(name) ==
  CASE name = "title" -> Str("Untitled")
    [] name = "summary" -> Str("Summary not available")
    [] OTHER -> List(<<>>)

\* One _extract_* coroutine: it catches every Exception itself, so it
\* returns and does not raise.
extract(name, fails) ==
  [raised |-> FALSE,
   value |-> IF fails THEN extractor_default(name) ELSE Extracted(name)]

get_fallback_value(field_name) ==
  CASE field_name = "title" -> Str("Untitled")
    [] field_name = "summary" -> Str("Summary not available")
    [] field_name \in {"insights", "tags", "action_items", "quotable_snippets"} -> List(<<>>)
    [] OTHER -> Str("")

\* The task list of _process_with_strategy's branch for the strategy.
StrategyTasks(strategy) ==
  IF strategy = "light" THEN LightFields ELSE AllFields

AICalls ==
  {[pc |-> "fields", strategy |-> st, failing |-> fl, i |-> 1,
    results |-> <<>>, raised |-> FALSE] :
      st \in ProcessingStrategy, fl \in SUBSET FieldSet}

aiFrame ==
  <<next_uuid, unique_user_url, requests, documents, bg, tasks, co,
    active_tasks, completed_tasks, failed_tasks, metrics, processing_status,
    faults, hist, chunking, cleaning, embedding, hybrid>>

\* One turn of `for name, task in tasks` (light, standard) or of
\* `for i, (name, _) in enumerate(tasks)` over the gathered results
\* (comprehensive): the awaited result, or the fallback if it is an exception.
AIField ==
  /\ ai_processing.pc = "fields"
  /\ ai_processing.i <= Len(StrategyTasks(ai_processing.strategy))
  /\ LET name == StrategyTasks(ai_processing.strategy)[ai_processing.i]
         r == extract(name, name \in ai_processing.failing)
         v == IF r.raised THEN get_fallback_value(name) ELSE r.value
     IN ai_processing' = [ai_processing EXCEPT !.results = Put(@, name, v),
                                              !.i = @ + 1]
  /\ UNCHANGED aiFrame

\* `return results`, through _process_with_strategy and process_content.
AIReturn ==
  /\ ai_processing.pc = "fields"
  /\ ai_processing.i > Len(StrategyTasks(ai_processing.strategy))
  /\ ai_processing' = [ai_processing EXCEPT !.pc = "returned"]
  /\ UNCHANGED aiFrame

InitAI ==
  /\ PipelineInit
  /\ unique_user_url          \* the store plays no part
  /\ chunking = NoCall
  /\ cleaning = NoCall
  /\ ai_processing \in AICalls
  /\ embedding = NoCall
  /\ hybrid = NoCall

NextAI ==
  \/ AIField
  \/ AIReturn

SpecAI == InitAI /\ [][NextAI]_vars

\* ---------------------------------------------------------------------
\* ContentProcessor._generate_embedding (services/content_processor.py).
\* A float b / 255.0 is kept as its numerator b.
MaxSeed == 63

md5_digest_size == 16       \* len(hashlib.md5(...).digest())

repeat_count == 48          \* [...] * 48

truncate_at == 1536         \* embedding[:1536]

small_model_dimension == 1536   \* text-embedding-3-small

\* hash_obj.digest(): 16 bytes that depend on the text (here on its seed).
digest(seed) ==
  [k \in 1..md5_digest_size |-> (seed * 37 + k * (2 * seed + 1) * 11) % 256]

\* xs * n: the list repeated n times.
Repeat(xs, n) ==
  [k \in 1..(Len(xs) * n) |-> xs[((k - 1) % Len(xs)) + 1]]

\* xs[:n]
Truncate(xs, n) == SubSeq(xs, 1, IF Len(xs) < n THEN Len(xs) ELSE n)

\* Lines 330-335: the hash-based fallback embedding.
fallback_embedding(seed) ==
  Truncate(Repeat(digest(seed), repeat_count), truncate_at)

EmbeddingCalls ==
  {[pc |-> "openai", seed |-> sd, fallback |-> FALSE, vector |-> <<>>] :
      sd \in 0..MaxSeed}

embeddingFrame ==
  <<next_uuid, unique_user_url, requests, documents, bg, tasks, co,
    active_tasks, completed_tasks, failed_tasks, metrics, processing_status,
    faults, hist, chunking, cleaning, ai_processing, hybrid>>

\* The try branch: the embeddings call returns the model's vector, or
\* raises and control passes to the except branch.
EmbeddingOpenAI ==
  /\ embedding.pc = "openai"
  /\ \E ok \in BOOLEAN :
       embedding' =
         IF ok
           THEN [embedding EXCEPT !.pc = "returned",
                                  !.vector = [k \in 1..small_model_dimension |-> 0]]
           ELSE [embedding EXCEPT !.pc = "except"]
  /\ UNCHANGED embeddingFrame

\* The except branch.
EmbeddingFallback ==
  /\ embedding.pc = "except"
  /\ embedding' = [embedding EXCEPT !.pc = "returned", !.fallback = TRUE,
                                    !.vector = fallback_embedding(embedding.seed)]
  /\ UNCHANGED embeddingFrame

InitVector ==
  /\ PipelineInit
  /\ unique_user_url          \* the store plays no part
  /\ chunking = NoCall
  /\ cleaning = NoCall
  /\ ai_processing = NoCall
  /\ embedding \in EmbeddingCalls
  /\ hybrid = NoCall

NextVector ==
  \/ EmbeddingOpenAI
  \/ EmbeddingFallback

SpecVector == InitVector /\ [][NextVector]_vars

\* ---------------------------------------------------------------------
\* EnhancedSearchService._hybrid_search (services/enhanced_search.py).
\* A relevance score x is kept as the integer x * ScoreScale, so that the
\* weighted sums of up to three merges are exact.
ScoreScale == 10000

NumDocs == 2

MaxLimit == 2

DocIds == 1..NumDocs

Scores == {5000, 9000}      \* 0.5 and 0.9

Failed == <<[id |-> 0, relevance_score |-> 0]>>   \* a gathered exception

IsList(result) == result # Failed

\* What a sub-search returns: documents with their relevance_score, each
\* document once, sorted by relevance_score, highest first.
ResultLists ==
  {r \in UNION {[1..n -> [id : DocIds, relevance_score : Scores]] : n \in 0..NumDocs} :
     /\ \A a, b \in DOMAIN r : a # b => r[a].id # r[b].id
     /\ \A a, b \in DOMAIN r : a < b => r[a].relevance_score >= r[b].relevance_score}

Position(docs, doc_id) ==
  IF \E k \in DOMAIN docs : docs[k].id = doc_id
    THEN CHOOSE k \in DOMAIN docs : docs[k].id = doc_id
    ELSE 0

\* Lines 341-347: the combined score of a document met again in result i
\* (0 = semantic, 1 = keyword, 2 = tag).
combine(i, existing_score, new_score) ==
  IF i = 0
    THEN (existing_score * 3 + new_score * 7) \div 10
    ELSE (existing_score * 6 + new_score * 4) \div 10

\* all_documents after `doc` of result i: a dict in insertion order.
merge_doc(all_documents, i, doc) ==
  LET k == Position(all_documents, doc.id)
  IN IF k = 0
       THEN Append(all_documents, doc)
       ELSE [all_documents EXCEPT ![k].relevance_score =
               combine(i, @, doc.relevance_score)]

RECURSIVE sort_by_relevance(_)
\* list.sort(key=relevance_score, reverse=True): stable, highest first.
sort_by_relevance(docs) ==
  IF docs = <<>> THEN <<>>
  ELSE LET rest == sort_by_relevance(SubSeq(docs, 1, Len(docs) - 1))
           x == docs[Len(docs)]
           before == SelectSeq(rest, LAMBDA d : d.relevance_score >= x.relevance_score)
           after == SelectSeq(rest, LAMBDA d : d.relevance_score < x.relevance_score)
       IN before \o <<x>> \o after

HybridCalls ==
  {[pc |-> "merge", results |-> <<sem, kw, tg>>, limit |-> lm, i |-> 0, j |-> 1,
    all_documents |-> <<>>, output |-> <<>>] :
      sem \in ResultLists \cup {Failed}, kw \in ResultLists \cup {Failed},
      tg \in ResultLists \cup {Failed}, lm \in 1..MaxLimit}

hybridFrame ==
  <<next_uuid, unique_user_url, requests, documents, bg, tasks, co,
    active_tasks, completed_tasks, failed_tasks, metrics, processing_status,
    faults, hist, chunking, cleaning, ai_processing, embedding>>

\* One turn of `for doc in result`.
HybridDoc ==
  /\ hybrid.pc = "merge"
  /\ hybrid.i < 3
  /\ IsList(hybrid.results[hybrid.i + 1])
  /\ hybrid.j <= Len(hybrid.results[hybrid.i + 1])
  /\ hybrid' = [hybrid EXCEPT
       !.all_documents = merge_doc(@, hybrid.i, hybrid.results[hybrid.i + 1][hybrid.j]),
       !.j = @ + 1]
  /\ UNCHANGED hybridFrame

\* The next turn of `for i, result in enumerate(results)`: the result is
\* exhausted, or it is not a list.
HybridNextResult ==
  /\ hybrid.pc = "merge"
  /\ hybrid.i < 3
  /\ \/ ~IsList(hybrid.results[hybrid.i + 1])
     \/ hybrid.j > Len(hybrid.results[hybrid.i + 1])
  /\ hybrid' = [hybrid EXCEPT !.i = @ + 1, !.j = 1]
  /\ UNCHANGED hybridFrame

\* Lines 350-353: sort, cut to `limit`, return.
HybridReturn ==
  /\ hybrid.pc = "merge"
  /\ hybrid.i = 3
  /\ hybrid' = [hybrid EXCEPT
       !.pc = "returned",
       !.output = Truncate(sort_by_relevance(hybrid.all_documents), hybrid.limit)]
  /\ UNCHANGED hybridFrame

InitHybrid ==
  /\ PipelineInit
  /\ unique_user_url          \* the store plays no part
  /\ chunking = NoCall
  /\ cleaning = NoCall
  /\ ai_processing = NoCall
  /\ embedding = NoCall
  /\ hybrid \in HybridCalls

NextHybrid ==
  \/ HybridDoc
  \/ HybridNextResult
  \/ HybridReturn

SpecHybrid == InitHybrid /\ [][NextHybrid]_vars

\* The awaited external call of stage 1 (_fetch_url_content, line 225) or
\* stage 3 (ai_processor.process_content, line 273) never returns.  The
\* await is wrapped in no asyncio.wait_for and settings.processing_timeout
\* is read nowhere, so the coroutine stays at the await.
stage_call_never_returns(t) ==
  /\ AtOp(t, 1) \/ AtOp(t, 3)
  /\ co' = [co EXCEPT ![t].pc = "hung"]
  /\ UNCHANGED <<tasks, active_tasks, completed_tasks, failed_tasks, metrics,
                 processing_status, faults, hist>>
  /\ UNCHANGED storeVars

NextHang ==
  \/ Next
  \/ \E t \in DOMAIN co : stage_call_never_returns(t)

\* The code as written, its coroutines scheduled fairly, with external
\* calls that may never return.
SpecHang == Init /\ [][NextHang]_vars /\ WF_vars(PipelineStep)

\* ------------------------------------------------------------ the claims

StageIndex(name) == CHOOSE k \in 1..NumStages : StageName[k] = name

Created(t) == t \in DOMAIN tasks

\* The ids uuid4() can have handed to process_url: two per request at most.
TaskIds == 1..(2 * MaxRequests)

\* C1: a task whose stage operation failed on every allowed attempt is
\* failed, its stage is that stage, its error message is set, its coroutine
\* has ended, and no operation of a later stage was ever invoked for it.
C1_FailsAtExhaustedStage ==
  \A t \in DOMAIN tasks :
    hist[t].exhausted # NoneStr =>
      /\ tasks[t].status = "failed"
      /\ tasks[t].stage = hist[t].exhausted
      /\ tasks[t].error_message # NoneStr
      /\ co[t].pc = "done"
      /\ \A k \in hist[t].invoked : k <= StageIndex(hist[t].exhausted)

\* A task that was cancelled on the way and then ran out of attempts in the
\* storage stage.
C1_Witness ==
  \E t \in DOMAIN tasks :
    /\ hist[t].exhausted = "database_storage"
    /\ hist[t].cancelled

\* C2: no Document row is completed while a chunk or embedding write for it
\* has failed.
C2_StorageIsAUnit ==
  \A d \in DOMAIN documents :
    documents[d].store_failed => documents[d].processing_status # "completed"

\* C3: when a request was answered from the pending Document row that an
\* earlier request of the same URL inserted, both responses carry the same
\* job_id and the URL has one Document row.
C3_SameJobId ==
  \A r1, r2 \in 1..MaxRequests :
    ( /\ requests[r1].pc = "done" /\ requests[r2].pc = "done"
      /\ requests[r1].doc # 0
      /\ requests[r2].short_circuit /\ requests[r2].status = "pending"
      /\ requests[r2].source = requests[r1].source
      /\ requests[r2].job_id = requests[r1].doc )
    => /\ requests[r1].job_id = requests[r2].job_id
       /\ Cardinality(Matching(requests[r1].source)) = 1

\* C4: a terminal status never changes.
C4_TerminalAbsorbing ==
  [][\A t \in DOMAIN tasks :
       tasks[t].status \in TerminalStatus => tasks'[t].status = tasks[t].status]_vars

\* C5: after cancel_task returned True for a task, no stage operation is
\* invoked for it and no row is written for it.
C5_NoStageAfterCancel ==
  \A t \in DOMAIN tasks : ~hist[t].after_cancel /\ ~hist[t].rows_after_cancel

\* C6: cancel_task on an id that is no task, or whose task is completed,
\* failed or cancelled, returns False and leaves the tasks, the three
\* registries, the metrics and the processing_status table as they were.
C6_CancelRefusedFrame ==
  [][\A id \in {0} \cup DOMAIN tasks :
       ( /\ ~Created(id) \/ tasks[id].status \in TerminalStatus
         /\ cancel_task(id) )
       => /\ ~CancelHonoured(id)
          /\ UNCHANGED <<tasks, active_tasks, completed_tasks, failed_tasks,
                         metrics, processing_status>>]_vars

\* cancel_task was called for a task that had ended, and refused.
C6_Witness ==
  \E t \in DOMAIN tasks :
    hist[t].refused /\ tasks[t].status \in TerminalStatus

C8_ProgressMonotonic ==
  [][\A t \in DOMAIN tasks :
       /\ tasks'[t].progress >= tasks[t].progress
       /\ tasks'[t].progress >= 0 /\ tasks'[t].progress <= 10]_vars

\* A task that was cancelled, failed attempts and still went all the way.
C8_Witness ==
  \E t \in DOMAIN tasks :
    tasks[t].progress = 10 /\ hist[t].cancelled /\ hist[t].cap_failed

\* C9: every task process_url started reaches a terminal status, its
\* coroutine ended.
C9_Terminates ==
  \A t \in TaskIds :
    Created(t) ~> (Created(t) /\ tasks[t].status \in TerminalStatus
                              /\ co[t].pc = "done")

\* A task that used every attempt of a stage before it ended.
C9_Witness ==
  \E t \in DOMAIN tasks :
    co[t].pc = "done" /\ co[t].attempt = max_retries /\ ~hist[t].cancelled

HappyStages ==
  <<"initialized", "content_extraction", "text_processing", "ai_analysis",
    "embedding_generation", "database_storage", "completed">>

\* C10: a task whose capabilities never failed and that was never cancelled
\* ends completed/completed/1.0, having passed the stages in order.
C10_HappyPath ==
  \A t \in DOMAIN tasks :
    (co[t].pc = "done" /\ ~hist[t].cap_failed /\ ~hist[t].cancelled)
    => /\ tasks[t].status = "completed"
       /\ tasks[t].stage = "completed"
       /\ tasks[t].progress = 10
       /\ hist[t].stages = HappyStages

\* C11: a task whose stage operation waits for an external call that never
\* returns does not stay processing forever: it reaches a terminal status.
C11_LeavesHungStage ==
  \A t \in TaskIds :
    (Created(t) /\ co[t].pc = "hung" /\ tasks[t].status = "processing")
      ~> (Created(t) /\ tasks[t].status \in TerminalStatus)

\* C12: for every task that is terminal in memory, the processing_status
\* row keyed by its task id holds the same status, stage, progress and
\* error message.
C12_MirrorAgreesOnTerminal ==
  \A t \in DOMAIN tasks :
    tasks[t].status \in TerminalStatus =>
      /\ t \in DOMAIN processing_status
      /\ processing_status[t] = tasks[t]

\* C13: when the processing of a submitted document ended in failure (the
\* pipeline task of a URL submission is failed, or the background text
\* processing raised), the Document row inserted at submission exists with
\* processing_status failed.
C13_FailedDocumentIsFailed ==
  \A r \in 1..MaxRequests :
    (requests[r].pc = "done" /\ requests[r].doc # 0) =>
      LET d == requests[r].doc
          ended_failed ==
            \/ StartsTask(r) /\ tasks[requests[r].job_id].status = "failed"
            \/ d \in DOMAIN bg /\ bg[d].raised
      IN  ended_failed =>
            d \in DOMAIN documents /\ documents[d].processing_status = "failed"

DocumentMoves ==
  {<<"pending", "processing">>, <<"processing", "completed">>,
   <<"processing", "failed">>, <<"pending", "failed">>}

C16_IndicesContiguous ==
  \A k \in 1..Len(chunking.chunks) : chunking.chunks[k].index = k - 1

\* _simple_chunking has returned two chunks with a blank window, which it
\* skipped, between them.
C16_Witness ==
  /\ chunking.pc = "done" /\ chunking.path = "simple"
  /\ Len(chunking.chunks) = 2
  /\ chunking.chunks[2].start_char > chunking.chunks[1].end_char

\* C17: every chunk of the sentence loop is a run of consecutive sentences
\* of the text: no sentence of the text is skipped between two of its
\* sentences.
C17_ChunksAreContiguousRuns ==
  chunking.path = "semantic" =>
    \A k \in 1..Len(chunking.chunks) :
      LET run == chunking.chunks[k].sentences IN
      \A j \in 1..(Len(run) - 1) : run[j + 1] = run[j] + 1

RECURSIVE WithoutOverlap(_)
\* The chunks' sentences, those carried over as overlap left out,
\* concatenated.
WithoutOverlap(chunks) ==
  IF chunks = <<>> THEN <<>>
  ELSE LET c == Head(chunks) IN
       SubSeq(c.sentences, c.carried + 1, Len(c.sentences))
         \o WithoutOverlap(Tail(chunks))

\* C18: the chunks the sentence loop returned, with the sentences each took
\* over from the previous one removed, concatenate to every sentence of the
\* text exactly once and in order.
C18_Reconstruction ==
  (chunking.path = "semantic" /\ chunking.pc = "done") =>
    WithoutOverlap(chunking.chunks) = [k \in 1..Len(chunking.sentences) |-> k]

\* A returned list of three chunks or more whose last one took over a
\* sentence and added more than one.
C18_Witness ==
  /\ chunking.path = "semantic" /\ chunking.pc = "done"
  /\ Len(chunking.chunks) >= 3
  /\ LET c == chunking.chunks[Len(chunking.chunks)] IN
       c.carried >= 1 /\ Len(c.sentences) >= c.carried + 2

\* The call has returned or raised.
ChunkingEnded == chunking.pc \in {"done", "raised"}

\* Every sentence of the text is, whole, in a chunk the sentence loop
\* returned.
SentencesUnsplit ==
  (chunking.path = "semantic" /\ chunking.pc = "done") =>
    \A k \in 1..Len(chunking.sentences) :
      \E j \in 1..Len(chunking.chunks) :
        \E m \in 1..Len(chunking.chunks[j].sentences) :
          chunking.chunks[j].sentences[m] = k

\* A call with overlap >= chunk_size is rejected (it raises) or runs with a
\* smaller overlap: no chunk takes over chunk_size characters or more, and
\* the windows of _simple_chunking still advance over a text that is not
\* blank.
OverlapClampedOrRejected ==
  chunking.overlap >= chunking.chunk_size =>
    \/ chunking.pc = "raised"
    \/ /\ \A j \in 1..Len(chunking.chunks) :
            LET c == chunking.chunks[j] IN
            SumLen(chunking.sentences, SubSeq(c.sentences, 1, c.carried))
              < chunking.chunk_size
       /\ ( /\ chunking.path = "simple" /\ chunking.pc = "done"
            /\ NotBlank(chunking.text, 0, Len(chunking.text)) )
          => chunking.chunks # <<>>

\* The termination part of C19 alone.
ChunkingTerminates == <>ChunkingEnded

\* C19: a call of create_enhanced_chunks ends, for every text, chunk_size
\* and overlap; a sentence longer than chunk_size is in a chunk unsplit; an
\* overlap >= chunk_size is clamped or rejected on both paths.
C19_TerminatesAndClamps ==
  /\ <>ChunkingEnded
  /\ [](SentencesUnsplit /\ OverlapClampedOrRejected)

\* C20: _clean_text is idempotent: cleaning a cleaned text changes nothing.
C20_CleanIdempotent ==
  cleaning.pc = "twice" => cleaning.twice = cleaning.once

\* C21: under every strategy and for every set of fields whose completion
\* call fails, process_content returns without raising; the result holds
\* exactly the strategy's fields, a failed field holds its typed fallback
\* (title "Untitled", summary "Summary not available", list fields the
\* empty list) and every other field holds its extracted value.
C21_FieldFailuresIsolated ==
  ai_processing.pc = "returned" =>
    /\ ~ai_processing.raised
    /\ DOMAIN ai_processing.results =
         {StrategyTasks(ai_processing.strategy)[k] :
            k \in DOMAIN StrategyTasks(ai_processing.strategy)}
    /\ \A name \in DOMAIN ai_processing.results :
         ai_processing.results[name] =
           IF name \notin ai_processing.failing THEN Extracted(name)
           ELSE IF name = "title" THEN Str("Untitled")
           ELSE IF name = "summary" THEN Str("Summary not available")
           ELSE List(<<>>)

C21_Witness ==
  /\ ai_processing.pc = "returned"
  /\ ai_processing.strategy = "comprehensive"
  /\ ai_processing.failing = {"title", "tags"}
  /\ ai_processing.results["title"] = Str("Untitled")
  /\ ai_processing.results["tags"] = List(<<>>)
  /\ ai_processing.results["summary"] = Extracted("summary")

\* C22: when the embedding capability fails, the hash-derived fallback
\* vector has exactly 1536 entries, the length of a vector returned by the
\* capability, for every input text.
C22_FallbackHasDimension ==
  (embedding.pc = "returned" /\ embedding.fallback) =>
    Len(embedding.vector) = 1536

\* Whether document d is in result n (1 = semantic, 2 = keyword, 3 = tag).
InResult(n, d) ==
  IsList(hybrid.results[n]) /\ Position(hybrid.results[n], d) # 0

ScoreIn(n, d) == hybrid.results[n][Position(hybrid.results[n], d)].relevance_score

\* C23: a document that is in the semantic result with score s and in the
\* keyword result with score k, and in no other result, has the merged
\* relevance 0.7 * s + 0.3 * k and appears once in what _hybrid_search
\* combines and at most once in what it returns.
C23_HybridWeights ==
  hybrid.pc = "returned" =>
    \A d \in DocIds :
      (InResult(1, d) /\ InResult(2, d) /\ ~InResult(3, d)) =>
        /\ Cardinality({n \in DOMAIN hybrid.all_documents :
                          hybrid.all_documents[n].id = d}) = 1
        /\ Cardinality({n \in DOMAIN hybrid.output : hybrid.output[n].id = d}) <= 1
        /\ hybrid.all_documents[Position(hybrid.all_documents, d)].relevance_score =
             (7 * ScoreIn(1, d) + 3 * ScoreIn(2, d)) \div 10

\* C24: a stage operation is invoked at most max_retries + 1 = 4 times;
\* after the k-th failed attempt (k = 1, 2, 3) the pipeline has slept
\* 2^(k-1) seconds (1, 2, 4) before the next one, and after the last failed
\* attempt it raises without sleeping.
C24_BoundedBackoff ==
  \A t \in DOMAIN co :
    /\ co[t].attempt + 1 <= max_retries + 1
    /\ co[t].slept = [k \in 1..co[t].attempt |-> 2 ^ (k - 1)]
    /\ hist[t].exhausted # NoneStr => co[t].slept = <<1, 2, 4>>

C24_Witness ==
  \E t \in DOMAIN co :
    /\ co[t].pc = "done"
    /\ hist[t].exhausted = "content_extraction"
    /\ tasks[t].status = "failed"
    /\ co[t].attempt = 3
    /\ co[t].slept = <<1, 2, 4>>

\* C25: when create_enhanced_chunks emits a chunk and seeds the next one,
\* the sentences carried over are the trailing sentences of the emitted
\* chunk, and their lengths add up to overlap at most.
C25_OverlapIsSuffix ==
  chunking.path = "semantic" =>
    \A k \in 2..Len(chunking.chunks) :
      LET emitted == chunking.chunks[k - 1].sentences
          n == chunking.chunks[k].carried
          carried == SubSeq(chunking.chunks[k].sentences, 1, n)
      IN /\ n <= Len(emitted)
         /\ carried = SubSeq(emitted, Len(emitted) - n + 1, Len(emitted))
         /\ SumLen(chunking.sentences, carried) <= chunking.overlap

C27_RegistriesExclusive ==
  /\ active_tasks \cap completed_tasks = {}
  /\ active_tasks \cap failed_tasks = {}
  /\ completed_tasks \cap failed_tasks = {}

\* The list positions of the chunker's chunks that are below the number
\* of embeddings, in list order.
PositionsBelow(chunks, embeddings) ==
  [k \in 1..(IF chunks < embeddings THEN chunks ELSE embeddings) |-> k - 1]

\* C28: total_processed = successful + failed in every state, and no task
\* is counted more than once: the tasks counted are those whose coroutine
\* has ended, also when _complete_task raised or the task was cancelled.
C28_MetricsConsistent ==
  /\ metrics.total_processed = metrics.successful + metrics.failed
  /\ metrics.total_processed =
       Cardinality({t \in DOMAIN co : co[t].pc = "done"})
  /\ metrics.total_processed <= Cardinality(DOMAIN tasks)

\* A cancelled task whose _complete_task raised on `del active_tasks[id]`:
\* counted once, as failed.
C28_Witness ==
  \E t \in DOMAIN co :
    /\ co[t].pc = "done"
    /\ hist[t].cancelled
    /\ hist[t].stages[Len(hist[t].stages)] = "completed"
    /\ tasks[t].status = "failed"
    /\ metrics = [total_processed |-> 1, successful |-> 0, failed |-> 1]

====
